---- MODULE Spec2Model ----
(***************************************************************************)
(* Model of backend/app.js of the study-plan generator: the deterministic  *)
(* fallback generator (generateFallbackPlan) and the HTTP handlers, with   *)
(* the POST /generate-plan handler split at its await points.              *)
(*                                                                         *)
(* Text is modelled as TLA+ strings, character for character; length,      *)
(* replace, trim and the digit match are computed on the characters.       *)
(***************************************************************************)
EXTENDS Integers, Sequences, FiniteSets, TLC

(***************************************************************************)
(* Bounds of the model.                                                    *)
(***************************************************************************)
\* number of HTTP requests the server receives in a behaviour
NumRequests == 2
\* largest week number written into the duration strings that are tried
MaxWeeks == 12

(***************************************************************************)
(* String helpers (JavaScript string semantics on ASCII text).             *)
(***************************************************************************)
CharAt(s, i) == SubSeq(s, i, i)

IsDigit(c) == c \in {"0", "1", "2", "3", "4", "5", "6", "7", "8", "9"}

DigitVal(c) ==
    CASE c = "0" -> 0 [] c = "1" -> 1 [] c = "2" -> 2 [] c = "3" -> 3
      [] c = "4" -> 4 [] c = "5" -> 5 [] c = "6" -> 6 [] c = "7" -> 7
      [] c = "8" -> 8 [] c = "9" -> 9

Min(S) == CHOOSE x \in S : \A y \in S : x <= y

\* String.prototype.indexOf from position i, 1-based; 0 when p does not
\* occur in s at or after i
IndexFrom(s, p, i) ==
    IF i + Len(p) - 1 <= Len(s) /\ SubSeq(s, i, i + Len(p) - 1) = p THEN i
    ELSE LET hits == {k \in (i + 1)..(Len(s) - Len(p) + 1) :
                         SubSeq(s, k, k + Len(p) - 1) = p}
         IN  IF hits = {} THEN 0 ELSE Min(hits)

IndexOf(s, p) == IndexFrom(s, p, 1)

\* s.replace(p, '') with a string pattern: the first occurrence only
ReplaceFirst(s, p) ==
    LET i == IndexOf(s, p)
    IN  IF i = 0 THEN s
        ELSE SubSeq(s, 1, i - 1) \o SubSeq(s, i + Len(p), Len(s))

IsSpace(c) == c \in {" ", "\n", "\t", "\r"}

\* first position at or after i that holds no white space (Len(s) + 1 if none)
RECURSIVE SkipSpaces(_, _)
SkipSpaces(s, i) ==
    IF i <= Len(s) /\ IsSpace(CharAt(s, i)) THEN SkipSpaces(s, i + 1) ELSE i

\* last position at or before j that holds no white space (0 if none)
RECURSIVE SkipSpacesBack(_, _)
SkipSpacesBack(s, j) ==
    IF j >= 1 /\ IsSpace(CharAt(s, j)) THEN SkipSpacesBack(s, j - 1) ELSE j

\* String.prototype.trim
Trim(s) == SubSeq(s, SkipSpaces(s, 1), SkipSpacesBack(s, Len(s)))

(***************************************************************************)
(* duration.match(/\d+/): null (here <<>>) or the array holding the        *)
(* leftmost maximal run of digits.                                         *)
(***************************************************************************)
RECURSIVE DigitRunEnd(_, _)
DigitRunEnd(s, i) ==
    IF i < Len(s) /\ IsDigit(CharAt(s, i + 1)) THEN DigitRunEnd(s, i + 1) ELSE i

\* first position at or after i that holds a digit (Len(s) + 1 if none)
RECURSIVE FirstDigit(_, _)
FirstDigit(s, i) ==
    IF i <= Len(s) /\ ~IsDigit(CharAt(s, i)) THEN FirstDigit(s, i + 1) ELSE i

MatchDigits(s) ==
    LET start == FirstDigit(s, 1)
    IN  IF start > Len(s) THEN <<>>
        ELSE <<SubSeq(s, start, DigitRunEnd(s, start))>>

\* the value parseInt gives for what is no number
NaN == -1

RECURSIVE DecimalValue(_)
DecimalValue(d) ==
    IF d = "" THEN 0
    ELSE 10 * DecimalValue(SubSeq(d, 1, Len(d) - 1)) + DigitVal(CharAt(d, Len(d)))

\* parseInt(m) of a match result: String(null) is "null" and parses to NaN,
\* String([d]) is d and parses to its decimal value
parseInt(m) == IF m = <<>> THEN NaN ELSE DecimalValue(m[1])

\* the week count assumed when the parsed value is falsy
DefaultWeeks == 4

\* a || b on numbers: NaN and 0 are falsy
OrElse(a, b) == IF a = NaN \/ a = 0 THEN b ELSE a

durationWeeks(duration) == OrElse(parseInt(MatchDigits(duration)), DefaultWeeks)

weeksText(w) == IF w > 1 THEN "weeks" ELSE "week"

\* Math.ceil(durationWeeks * 0.7); the double product rounds to the same
\* integer as the exact 7w/10 for every w below 2,000,000
CeilSeventy(w) == (7 * w + 9) \div 10

(***************************************************************************)
(* generateFallbackPlan: the template literal, piece by piece.             *)
(***************************************************************************)
\* the range test of Phase 1 one week early
Phase1LineEarlyRange(w) ==
    "Phase 1: Foundation (Week 1" \o (IF w >= 2 THEN "-2" ELSE "") \o ")"

Phase1Line(w) ==
    "Phase 1: Foundation (Week 1" \o (IF w > 2 THEN "-2" ELSE "") \o ")"

Phase2Line(w) ==
    "Phase 2: Core Learning (Week "
      \o (IF w > 2 THEN "3-" \o ToString(CeilSeventy(w)) ELSE "2") \o ")"

Phase3Line(w) ==
    "Phase 3: Advanced Application (Week " \o ToString(CeilSeventy(w) + 1)
      \o "-" \o ToString(w - 1) \o ")"

MilestoneLines(w) ==
    (IF w > 2 THEN "Week 3: Applications\n" ELSE "")
      \o (IF w > 3 THEN "Week 4: Mastery\n" ELSE "")
      \o "Final Week: Goal ready!"

generateFallbackPlan(subject, level, duration, goals) ==
    LET w == durationWeeks(duration)
    IN  "Study Plan for " \o subject \o " (" \o level \o " Level)\n"
     \o "Duration: " \o duration \o "\n"
     \o "Goals: " \o goals \o "\n"
     \o "\n=== STUDY PLAN OVERVIEW ===\n\n"
     \o Phase1Line(w) \o "\n"
     \o ("- Review fundamental concepts\n- Gather materials\n"
           \o "- Establish routine (1-2 hrs/day)\n- Do basic exercises\n\n")
     \o Phase2Line(w) \o "\n"
     \o ("- Deep dive into core topics\n- Practice problem-solving\n"
           \o "- Create notes/mind maps\n\n")
     \o Phase3Line(w) \o "\n"
     \o ("- Complex topics + real-world use\n- Case studies and scenarios\n"
           \o "- Integration of topics\n\n")
     \o ("Phase 4: Review & Mastery (Final Week)\n"
           \o "- Final revision\n- Mock tests\n- Confidence boosting\n\n")
     \* the source has an en dash between 60 and 90; one character either way
     \o ("=== DAILY STRUCTURE ===\n\n"
           \o "Morning: Recap previous, prep new (~30 min)\n"
           \o "Midday: Learn/practice new (~60-90 min)\n"
           \o "Evening: Summarize & plan (~15 min)\n\n")
     \o ("=== WEEKLY MILESTONES ===\n\n"
           \o "Week 1: Foundation\nWeek 2: Core modules\n")
     \o MilestoneLines(w) \o "\n"
     \o ("\nTips:\n- Use Pomodoro\n- Review often\n"
           \o "- Join groups / Ask questions\n- Be consistent\n\n"
           \o "(This is a fallback plan when AI is unavailable.)")

(***************************************************************************)
(* The fallback generator on its own: inputs drawn from a bounded set.     *)
(***************************************************************************)
VARIABLES
    req,      \* per request: the handler's position, locals, response, I/O log
    store,    \* the studyPlans collection, in insertion order
    fbIn,     \* arguments given to generateFallbackPlan (stand-alone runs)
    fbOut     \* its result, "" before the call

vars == <<req, store, fbIn, fbOut>>

\* duration strings: with a digit run (values 0..MaxWeeks, a leading zero,
\* a second run after the first) and without any digit
Durations ==
    {ToString(n) \o " weeks" : n \in 0..MaxWeeks}
      \cup {"in " \o ToString(n) \o " weeks, 2 days" : n \in 0..MaxWeeks}
      \cup {"08 weeks", "week 0", "soon", "a month", "four weeks"}

FallbackInputs ==
    [subject : {"Math", "Rust"}, level : {"Beginner"},
     duration : Durations, goals : {"Pass the exam"}]

GenerateFallback ==
    /\ fbOut = ""
    /\ fbOut' = generateFallbackPlan(fbIn.subject, fbIn.level, fbIn.duration, fbIn.goals)
    /\ UNCHANGED <<req, store, fbIn>>

(***************************************************************************)
(* The HTTP service.                                                       *)
(***************************************************************************)
\* the candidate list of POST /generate-plan (and of GET /check-models)
models ==
    << "mistralai/Mistral-7B-Instruct-v0.3",
       "microsoft/DialoGPT-medium",
       "google/flan-t5-large",
       "facebook/blenderbot-400M-distill",
       "bigscience/bloom-560m" >>

\* the length a response's generated_text must have to be accepted
MinGeneratedLength == 100

\* GET /study-plans returns at most this many records
ListLimit == 50

Requests == 1..NumRequests

Fields == {"subject", "level", "duration", "goals"}

\* !x of a destructured body field: absent (undefined) or the empty string
Falsy(body, f) == f \notin DOMAIN body \/ body[f] = ""

\* the validation with goals forgotten
MissingFieldButGoals(body) == \E f \in Fields \ {"goals"} : Falsy(body, f)

\* !subject || !level || !duration || !goals
MissingField(body) == \E f \in Fields : Falsy(body, f)

\* a destructured field as a template literal or a document prints it
Field(body, f) == IF f \in DOMAIN body THEN body[f] ELSE "undefined"

ValidBody ==
    [subject |-> "Math", level |-> "Beginner", duration |-> "3 weeks",
     goals |-> "Pass the exam"]

\* request bodies: the complete one, and it with one field left out
Bodies ==
    {ValidBody} \cup {[f \in Fields \ {g} |-> ValidBody[f]] : g \in Fields}

BuildPrompt(body) ==
    "Create a personalized study plan:\n"
     \o "\n"
     \o "Subject: " \o Field(body, "subject") \o "\n"
     \o "Level: " \o Field(body, "level") \o "\n"
     \o "Duration: " \o Field(body, "duration") \o "\n"
     \o "Goals: " \o Field(body, "goals") \o "\n"
     \o "\n"
     \o "Include:\n"
     \o "1. Overview\n"
     \o "2. Weekly breakdown\n"
     \o "3. Daily study schedule\n"
     \o "4. Milestones\n"
     \o "5. Assessments\n"
     \o "6. Resources\n"
     \o "7. Learning tips"

\* a plan body of exactly 100 characters, and its first 99
Body100 == "Week 1: read the core chapters. Week 2: practise daily. Week 3: revise notes. Week 4: sit a mock tes"
Body99 == "Week 1: read the core chapters. Week 2: practise daily. Week 3: revise notes. Week 4: sit a mock te"

\* what inference.textGeneration can do for a prompt: raise, answer without
\* generated_text, answer 99 characters, echo the prompt and go on with a
\* 100-character plan, or echo the prompt and add next to nothing
InferenceOutcomes(prompt) ==
    { [kind |-> "throw"],
      [kind |-> "return"],
      [kind |-> "return", generated_text |-> Body99],
      [kind |-> "return", generated_text |-> prompt \o "\n\n" \o Body100 \o "\n"],
      [kind |-> "return", generated_text |-> prompt \o "\n\nOK\n"] }

\* the acceptance test with the threshold one character low
AcceptedFrom99(out) ==
    /\ out.kind = "return"
    /\ "generated_text" \in DOMAIN out
    /\ out.generated_text # ""
    /\ Len(out.generated_text) >= MinGeneratedLength - 1

\* response?.generated_text && response.generated_text.length >= 100
Accepted(out) ==
    /\ out.kind = "return"
    /\ "generated_text" \in DOMAIN out
    /\ out.generated_text # ""
    /\ Len(out.generated_text) >= MinGeneratedLength

\* the same test on the text alone, for the I/O log: the candidate returned
\* at least 100 characters
ReturnedLongText(out) ==
    /\ out.kind = "return"
    /\ "generated_text" \in DOMAIN out
    /\ Len(out.generated_text) >= 100

(***************************************************************************)
(* Request state.  pc is the handler's position: "idle" before the request *)
(* arrives, "awaitGen" suspended in inference.textGeneration for models[i],*)
(* "awaitAdd" suspended in the insert of an accepted text, "awaitFbAdd"    *)
(* suspended in the insert of the fallback plan, "done" once it has        *)
(* answered.  log, lastReturn, allPoor and inserted record the handler's   *)
(* I/O and are never read by it: log lists the inference calls issued and  *)
(* settled, lastReturn says how the latest one settled while the handler   *)
(* runs, allPoor that none so far returned 100 characters or more,         *)
(* inserted lists the ids of the records the request created.              *)
(***************************************************************************)
NoResponse == [status |-> 0]

IdleRequest ==
    [pc |-> "idle", route |-> "", body |-> <<>>,
     i |-> 0, lastError |-> "null", modelUsed |-> "null",
     generatedText |-> "", fallbackPlan |-> "",
     res |-> NoResponse,
     log |-> <<>>, lastReturn |-> "none", allPoor |-> TRUE, inserted |-> <<>>]

\* requests are numbered in their order of arrival
CanArrive(r) ==
    /\ req[r].pc = "idle"
    /\ \A q \in Requests : q < r => req[q].pc # "idle"

\* the handler returns: its locals are gone, the response is out
Return(q, response) ==
    [q EXCEPT !.pc = "done", !.res = response, !.i = 0, !.lastError = "null",
              !.modelUsed = "null", !.generatedText = "", !.fallbackPlan = "",
              !.lastReturn = "none"]

\* the loop body: await inference.textGeneration({model: models[k], ...})
IssueCall(q, k) ==
    [q EXCEPT !.pc = "awaitGen", !.i = k, !.log = Append(@, <<"call", k>>)]

\* after the loop: the fallback plan is computed and its insert awaited
StartFallback(q) ==
    [q EXCEPT !.pc = "awaitFbAdd", !.i = 0,
              !.fallbackPlan = generateFallbackPlan(
                                   Field(q.body, "subject"), Field(q.body, "level"),
                                   Field(q.body, "duration"), Field(q.body, "goals"))]

\* the loop trying each candidate a second time before the next one
NextIterationRetry(q) ==
    IF Cardinality({n \in 1..Len(q.log) : q.log[n] = <<"call", q.i>>}) < 2
    THEN IssueCall(q, q.i)
    ELSE IF q.i < Len(models) THEN IssueCall(q, q.i + 1)
    ELSE StartFallback(q)

\* iteration q.i ended without a return statement: next candidate, or the
\* code after the loop
NextIteration(q) ==
    IF q.i < Len(models) THEN IssueCall(q, q.i + 1) ELSE StartFallback(q)

\* the catch block of the loop
CatchInLoop(q) == NextIteration([q EXCEPT !.lastError = "Error"])

\* document ids are assigned by the store; createdAt is the server's time
DocId(n) == "doc" \o ToString(n)

\* the document written with the handler's modelUsed variable, whatever
\* the caller names
NewRecordLocalModel(q, plan, usedModel, byAi) ==
    [id |-> DocId(Len(store) + 1),
     subject |-> Field(q.body, "subject"), level |-> Field(q.body, "level"),
     duration |-> Field(q.body, "duration"), goals |-> Field(q.body, "goals"),
     plan |-> plan, modelUsed |-> q.modelUsed,
     createdAt |-> Len(store) + 1, isAiGenerated |-> byAi]

NewRecord(q, plan, usedModel, byAi) ==
    [id |-> DocId(Len(store) + 1),
     subject |-> Field(q.body, "subject"), level |-> Field(q.body, "level"),
     duration |-> Field(q.body, "duration"), goals |-> Field(q.body, "goals"),
     plan |-> plan, modelUsed |-> usedModel,
     createdAt |-> Len(store) + 1, isAiGenerated |-> byAi]

(***************************************************************************)
(* POST /generate-plan                                                     *)
(***************************************************************************)
\* arrival: validation, prompt, first candidate called
PostGeneratePlan(r) ==
    /\ CanArrive(r)
    /\ \E body \in Bodies :
         LET q == [req[r] EXCEPT !.route = "POST /generate-plan", !.body = body]
         IN  req' = [req EXCEPT ![r] =
                IF MissingField(body)
                THEN Return(q, [status |-> 400,
                                json |-> [error |-> "All fields are required"]])
                ELSE IssueCall(q, 1)]
    /\ UNCHANGED <<store, fbIn, fbOut>>

\* the awaited textGeneration call settles
GenerationReturns(r) ==
    /\ req[r].pc = "awaitGen"
    /\ LET prompt == BuildPrompt(req[r].body)
       IN  \E out \in InferenceOutcomes(prompt) :
             LET q == [req[r] EXCEPT
                         !.log = Append(@, <<"return", req[r].i>>),
                         !.lastReturn = IF ReturnedLongText(out) THEN "long" ELSE "poor",
                         !.allPoor = @ /\ ~ReturnedLongText(out)]
             IN  req' = [req EXCEPT ![r] =
                    IF out.kind = "throw" THEN CatchInLoop(q)
                    ELSE IF Accepted(out)
                    THEN [q EXCEPT
                            !.generatedText =
                                Trim(ReplaceFirst(out.generated_text, prompt)),
                            !.modelUsed = models[q.i],
                            !.pc = "awaitAdd"]
                    ELSE NextIteration(q)]
    /\ UNCHANGED <<store, fbIn, fbOut>>

\* the insert of the accepted text succeeds: respond with it
AddSucceeds(r) ==
    /\ req[r].pc = "awaitAdd"
    /\ LET q == req[r]
           rec == NewRecord(q, q.generatedText, q.modelUsed, TRUE)
       IN  /\ store' = Append(store, rec)
           /\ req' = [req EXCEPT ![r] =
                Return([q EXCEPT !.inserted = Append(@, rec.id)],
                       [status |-> 200,
                        json |-> [success |-> TRUE, plan |-> q.generatedText,
                                  planId |-> rec.id, modelUsed |-> q.modelUsed,
                                  isAiGenerated |-> TRUE]])]
    /\ UNCHANGED <<fbIn, fbOut>>

\* the insert of the accepted text raises, inside the loop's try block
AddFails(r) ==
    /\ req[r].pc = "awaitAdd"
    /\ req' = [req EXCEPT ![r] = CatchInLoop([req[r] EXCEPT !.generatedText = ""])]
    /\ UNCHANGED <<store, fbIn, fbOut>>

FallbackAddSucceeds(r) ==
    /\ req[r].pc = "awaitFbAdd"
    /\ LET q == req[r]
           rec == NewRecord(q, q.fallbackPlan, "fallback", FALSE)
       IN  /\ store' = Append(store, rec)
           /\ req' = [req EXCEPT ![r] =
                Return([q EXCEPT !.inserted = Append(@, rec.id)],
                       [status |-> 200,
                        json |-> [success |-> TRUE, plan |-> q.fallbackPlan,
                                  planId |-> rec.id, modelUsed |-> "fallback",
                                  isAiGenerated |-> FALSE,
                                  message |-> "AI service unavailable, fallback used"]])]
    /\ UNCHANGED <<fbIn, fbOut>>

FallbackAddFails(r) ==
    /\ req[r].pc = "awaitFbAdd"
    /\ LET q == req[r]
       IN  req' = [req EXCEPT ![r] =
                Return(q,
                       [status |-> 200,
                        json |-> [success |-> TRUE, plan |-> q.fallbackPlan,
                                  modelUsed |-> "fallback",
                                  isAiGenerated |-> FALSE,
                                  warning |-> "Fallback plan not saved due to DB error"]])]
    /\ UNCHANGED <<store, fbIn, fbOut>>

(***************************************************************************)
(* The read-only endpoints, each handled in one step.  The timestamp       *)
(* fields of /check-models and /health are left out.                       *)
(***************************************************************************)
\* .orderBy('createdAt', 'desc')
OrderByCreatedAtDesc(s) ==
    [k \in 1..Len(s) |->
        CHOOSE x \in {s[j] : j \in 1..Len(s)} :
            Cardinality({j \in 1..Len(s) : s[j].createdAt > x.createdAt}) = k - 1]

\* .limit(n)
Limit(s, n) == SubSeq(s, 1, IF Len(s) < n THEN Len(s) ELSE n)

ListPlans == Limit(OrderByCreatedAtDesc(store), ListLimit)

GetStudyPlans(r) ==
    /\ CanArrive(r)
    /\ \E ok \in BOOLEAN :
         req' = [req EXCEPT ![r] =
            Return([req[r] EXCEPT !.route = "GET /study-plans"],
                   IF ok
                   THEN [status |-> 200, json |-> [success |-> TRUE, plans |-> ListPlans]]
                   ELSE [status |-> 500,
                         json |-> [success |-> FALSE, error |-> "store unavailable"]])]
    /\ UNCHANGED <<store, fbIn, fbOut>>

\* the ids asked for: the first document's, and one the store never assigns
LookupIds == {DocId(1), "no-such-id"}

GetStudyPlan(r) ==
    /\ CanArrive(r)
    /\ \E id \in LookupIds, ok \in BOOLEAN :
         LET found == {j \in 1..Len(store) : store[j].id = id}
         IN  req' = [req EXCEPT ![r] =
                Return([req[r] EXCEPT !.route = "GET /study-plan/:id"],
                       IF ~ok
                       THEN [status |-> 500,
                             json |-> [success |-> FALSE, error |-> "store unavailable"]]
                       ELSE IF found = {}
                       THEN [status |-> 404,
                             json |-> [success |-> FALSE, error |-> "Not found"]]
                       ELSE [status |-> 200,
                             json |-> [success |-> TRUE,
                                       plan |-> store[CHOOSE j \in found : TRUE]]])]
    /\ UNCHANGED <<store, fbIn, fbOut>>

\* which candidates answer the probe: all, or all but the first
ProbePatterns == {1..Len(models), 2..Len(models)}

RECURSIVE ProbeLog(_)
ProbeLog(k) ==
    IF k = 0 THEN <<>> ELSE ProbeLog(k - 1) \o << <<"call", k>>, <<"return", k>> >>

CheckModels(r) ==
    /\ CanArrive(r)
    /\ \E up \in ProbePatterns :
         req' = [req EXCEPT ![r] =
            Return([req[r] EXCEPT !.route = "GET /check-models",
                                  !.log = ProbeLog(Len(models))],
                   [status |-> 200,
                    json |-> [modelStatus |->
                        [k \in 1..Len(models) |->
                            IF k \in up THEN "Available"
                            ELSE "Unavailable: request failed"]]])]
    /\ UNCHANGED <<store, fbIn, fbOut>>

Health(r) ==
    /\ CanArrive(r)
    /\ req' = [req EXCEPT ![r] =
            Return([req[r] EXCEPT !.route = "GET /health"],
                   [status |-> 200,
                    json |-> [status |-> "healthy", server |-> "study-plan-generator",
                              version |-> "1.0.0"]])]
    /\ UNCHANGED <<store, fbIn, fbOut>>

\* app.use('*'): any route that matched nothing above
NotFound(r) ==
    /\ CanArrive(r)
    /\ req' = [req EXCEPT ![r] =
            Return([req[r] EXCEPT !.route = "*"],
                   [status |-> 404, json |-> [success |-> FALSE, error |-> "Not found"]])]
    /\ UNCHANGED <<store, fbIn, fbOut>>

(***************************************************************************)
(* Specifications.                                                         *)
(***************************************************************************)
Init ==
    /\ req = [r \in Requests |-> IdleRequest]
    /\ store = <<>>
    /\ fbIn = ValidBody
    /\ fbOut = ""

Next ==
    \E r \in Requests :
        \/ PostGeneratePlan(r)
        \/ GenerationReturns(r)
        \/ AddSucceeds(r)
        \/ AddFails(r)
        \/ FallbackAddSucceeds(r)
        \/ FallbackAddFails(r)
        \/ GetStudyPlans(r)
        \/ GetStudyPlan(r)
        \/ CheckModels(r)
        \/ Health(r)
        \/ NotFound(r)

Spec == Init /\ [][Next]_vars

\* the fallback generator applied to each input of FallbackInputs
InitFallback ==
    /\ req = [r \in Requests |-> IdleRequest]
    /\ store = <<>>
    /\ fbIn \in FallbackInputs
    /\ fbOut = ""

NextFallback == GenerateFallback

SpecFallback == InitFallback /\ [][NextFallback]_vars

(***************************************************************************)
(* Vocabulary of the properties.                                           *)
(***************************************************************************)
IsPost(q) == q.route = "POST /generate-plan"

\* all four fields of the request body are there (and not empty)
AllPresent(body) ==
    \A f \in {"subject", "level", "duration", "goals"} :
        f \in DOMAIN body /\ body[f] # ""

\* the request has answered 200 to POST /generate-plan
Answered(q) == IsPost(q) /\ q.pc = "done" /\ q.res.status = 200

\* the line of text that starts with prefix (not the first line)
LineOf(text, prefix) ==
    LET a == IndexOf(text, "\n" \o prefix) + 1
        e == IndexFrom(text, "\n", a)
    IN  SubSeq(text, a, (IF e = 0 THEN Len(text) + 1 ELSE e) - 1)

\* <<first, last>> of the weeks a phase line prints: "(Week a-b)" or "(Week a)"
WeekRange(line) ==
    LET a == IndexOf(line, "(Week ") + 6
        inner == SubSeq(line, a, Len(line) - 1)
        dash == IndexOf(inner, "-")
    IN  IF dash = 0 THEN <<DecimalValue(inner), DecimalValue(inner)>>
        ELSE <<DecimalValue(SubSeq(inner, 1, dash - 1)),
               DecimalValue(SubSeq(inner, dash + 1, Len(inner)))>>

\* the week count the claim C6 describes: the first digit run's value, 4
\* when there is no digit
ClaimedWeekCount(duration) ==
    IF MatchDigits(duration) = <<>> THEN 4
    ELSE DecimalValue(MatchDigits(duration)[1])

\* the plan the handler holds while it awaits an insert
PendingPlan(q) == IF q.pc = "awaitAdd" THEN q.generatedText ELSE q.fallbackPlan

Outstanding(log, n) ==
    Cardinality({m \in 1..n : log[m][1] = "call"})
      - Cardinality({m \in 1..n : log[m][1] = "return"})

(***************************************************************************)
(* C1.  Once the first candidate has returned 100 characters or more, the  *)
(* request issues no further inference call, and its next step, whatever   *)
(* the insert does, is the response with modelUsed = the first candidate.  *)
(* Stated as in the claim; the code breaks it when the insert fails.       *)
(***************************************************************************)
C1_FirstLongAnswerEndsTheSearch ==
    [][\A r \in Requests :
         (IsPost(req[r]) /\ req[r].i = 1 /\ req[r].lastReturn = "long")
            => /\ req'[r].log = req[r].log
               /\ (req'[r] # req[r]
                     => /\ req'[r].pc = "done"
                        /\ req'[r].res.status = 200
                        /\ req'[r].res.json.modelUsed = models[1])]_vars

(***************************************************************************)
(* C2.  A POST /generate-plan with all four fields whose candidate calls   *)
(* all raised or returned fewer than 100 characters answers with           *)
(* isAiGenerated = false, modelUsed = "fallback" and the plan              *)
(* generateFallbackPlan gives for the same four fields.                    *)
(***************************************************************************)
C2_ExhaustionAnswersWithFallback ==
    \A r \in Requests :
        LET q == req[r]
        IN  (IsPost(q) /\ q.pc = "done" /\ AllPresent(q.body) /\ q.allPoor)
               => /\ q.res.status = 200
                  /\ q.res.json.isAiGenerated = FALSE
                  /\ q.res.json.modelUsed = "fallback"
                  /\ q.res.json.plan =
                        generateFallbackPlan(q.body.subject, q.body.level,
                                             q.body.duration, q.body.goals)

\* all five candidates failed, and so did the insert of the fallback plan
C2_Witness ==
    \E r \in Requests :
        /\ Answered(req[r]) /\ AllPresent(req[r].body) /\ req[r].allPoor
        /\ Len(req[r].log) = 2 * Len(models)
        /\ "warning" \in DOMAIN req[r].res.json

(***************************************************************************)
(* C3.  Whenever an insert of POST /generate-plan fails, the request's     *)
(* next state is its response, carrying the plan it held when the insert   *)
(* was attempted.  Stated as in the claim; the code breaks it on the AI    *)
(* path, where the failure sends the loop to the next candidate.           *)
(***************************************************************************)
C3_InsertFailureKeepsThePlan ==
    [][\A r \in Requests :
         (/\ req[r].pc \in {"awaitAdd", "awaitFbAdd"}
          /\ req'[r] # req[r]
          /\ store' = store)
            => /\ req'[r].pc = "done"
               /\ req'[r].res.status = 200
               /\ req'[r].res.json.plan = PendingPlan(req[r])]_vars

(***************************************************************************)
(* C4.  A POST /generate-plan that lacks one of the four fields is         *)
(* answered 400, has issued no inference call and has created no record:   *)
(* every record of the store was created by another request.               *)
(***************************************************************************)
C4_MissingFieldRejectedWithoutEffect ==
    \A r \in Requests :
        LET q == req[r]
        IN  (IsPost(q) /\ ~AllPresent(q.body))
               => /\ q.pc = "done"
                  /\ q.res.status = 400
                  /\ q.log = <<>>
                  /\ q.inserted = <<>>
                  /\ \A j \in 1..Len(store) :
                        \E p \in Requests \ {r} : req[p].inserted = <<store[j].id>>

\* a request without goals was rejected while the store held a record
C4_Witness ==
    \E r \in Requests :
        /\ IsPost(req[r]) /\ req[r].pc = "done"
        /\ "goals" \notin DOMAIN req[r].body
        /\ req[r].res.status = 400
        /\ Len(store) = 1

(***************************************************************************)
(* C5.  Every plan answered or stored with isAiGenerated = true is at      *)
(* least 100 characters long.  Stated as in the claim; the code measures   *)
(* the text before the prompt is cut out of it.                            *)
(***************************************************************************)
C5_AiPlansHaveHundredCharacters ==
    /\ \A r \in Requests :
          (Answered(req[r]) /\ req[r].res.json.isAiGenerated)
             => Len(req[r].res.json.plan) >= 100
    /\ \A j \in 1..Len(store) :
          store[j].isAiGenerated => Len(store[j].plan) >= 100

(***************************************************************************)
(* C6.  The week count generateFallbackPlan prints (the last week of       *)
(* Phase 3 is week-count - 1) is the value of the first digit run of the   *)
(* duration, 0 included, and 4 only when the duration has no digit.        *)
(* Stated as in the claim; the code takes 4 for a run of value 0 too.      *)
(***************************************************************************)
C6_WeekCountIsFirstDigitRun ==
    fbOut # ""
       => WeekRange(LineOf(fbOut, "Phase 3:"))[2] + 1 = ClaimedWeekCount(fbIn.duration)

(***************************************************************************)
(* C7.  The Phase 1 line of generateFallbackPlan's output reads "Week 1"   *)
(* when the week count is at most 2 and "Week 1-2" when it is above 2.     *)
(***************************************************************************)
C7_Phase1Line ==
    fbOut # ""
       => LineOf(fbOut, "Phase 1:") =
             IF durationWeeks(fbIn.duration) <= 2
             THEN "Phase 1: Foundation (Week 1)"
             ELSE "Phase 1: Foundation (Week 1-2)"

\* a plan generated for a week count of exactly 2
C7_Witness ==
    /\ fbOut # ""
    /\ durationWeeks(fbIn.duration) = 2
    /\ LineOf(fbOut, "Phase 1:") = "Phase 1: Foundation (Week 1)"

(***************************************************************************)
(* C8.  Within one POST /generate-plan the candidates are called in list   *)
(* order, each at most once, never two calls outstanding, and candidate    *)
(* k+1 only after the call to candidate k has settled.                     *)
(***************************************************************************)
C8_CandidatesCalledInOrderOneAtATime ==
    \A r \in Requests :
        IsPost(req[r]) =>
            LET log == req[r].log
                pos == 1..Len(log)
            IN  /\ \A n \in pos : Outstanding(log, n) \in {0, 1}
                /\ \A m, n \in pos :
                      (m < n /\ log[m][1] = "call" /\ log[n][1] = "call")
                         => log[m][2] < log[n][2]
                /\ \A n \in pos :
                      (log[n][1] = "call" /\ log[n][2] > 1)
                         => \E m \in 1..(n - 1) : log[m] = <<"return", log[n][2] - 1>>
                /\ \A n \in pos :
                      log[n][1] = "return"
                         => \E m \in 1..(n - 1) : log[m] = <<"call", log[n][2]>>
                /\ \A n \in pos : log[n][2] \in 1..Len(models)

\* a request that went through all five candidates, one of them after an
\* insert had failed
C8_Witness ==
    \E r \in Requests :
        /\ Answered(req[r])
        /\ Len(req[r].log) = 2 * Len(models)
        /\ ~req[r].allPoor

(***************************************************************************)
(* C9.  In every state, each request has created at most one record; a     *)
(* request whose response carries a planId has created exactly the record  *)
(* of that id, the store holds it once, and its fields are those of the     *)
(* response and of the request, so that nothing done later has changed or   *)
(* removed it; and every record of the store was created by one request.   *)
(***************************************************************************)
C9_OneRecordPerRequestKept ==
    /\ \A r \in Requests :
          LET q == req[r]
          IN  /\ Len(q.inserted) <= 1
              /\ (Answered(q) /\ "planId" \in DOMAIN q.res.json)
                    => /\ q.inserted = <<q.res.json.planId>>
                       /\ Cardinality({j \in 1..Len(store) :
                                          store[j].id = q.res.json.planId}) = 1
                       /\ \A j \in 1..Len(store) :
                             store[j].id = q.res.json.planId
                                => /\ store[j].plan = q.res.json.plan
                                   /\ store[j].modelUsed = q.res.json.modelUsed
                                   /\ store[j].isAiGenerated = q.res.json.isAiGenerated
                                   /\ \A f \in DOMAIN q.body : store[j][f] = q.body[f]
    /\ \A j \in 1..Len(store) :
          Cardinality({r \in Requests : req[r].inserted = <<store[j].id>>}) = 1

\* two requests have each stored a record, the later one first
C9_Witness ==
    /\ Len(store) = 2
    /\ \E r1, r2 \in Requests :
          /\ r1 < r2
          /\ Answered(req[r1]) /\ Answered(req[r2])
          /\ "planId" \in DOMAIN req[r1].res.json
          /\ "planId" \in DOMAIN req[r2].res.json
          /\ req[r1].res.json.planId = DocId(2)
          /\ req[r2].res.json.planId = DocId(1)
          /\ req[r1].res.json.isAiGenerated /\ ~req[r2].res.json.isAiGenerated

(***************************************************************************)
(* C10.  For a week count w >= 1 the week ranges printed for Phases 1-3    *)
(* are well formed: first <= last, every number within 1..w, Phase 2       *)
(* starting after Phase 1 ends and Phase 3 after Phase 2 ends.  Stated as  *)
(* in the claim; the code prints "Week 2-0" for one week, "Week 4-3" for   *)
(* four.                                                                   *)
(***************************************************************************)
C10_PhaseRangesWellFormed ==
    (fbOut # "" /\ durationWeeks(fbIn.duration) >= 1)
       => LET w == durationWeeks(fbIn.duration)
              p1 == WeekRange(LineOf(fbOut, "Phase 1:"))
              p2 == WeekRange(LineOf(fbOut, "Phase 2:"))
              p3 == WeekRange(LineOf(fbOut, "Phase 3:"))
          IN  /\ p1[1] <= p1[2] /\ p2[1] <= p2[2] /\ p3[1] <= p3[2]
              /\ \A x \in {p1[1], p1[2], p2[1], p2[2], p3[1], p3[2]} :
                    1 <= x /\ x <= w
              /\ p2[1] > p1[2]
              /\ p3[1] > p2[2]

====
